---- MODULE Spec2Model ----
(***************************************************************************)
(* Grade calculation engine of Whats-My-Grade                              *)
(* (src/src/utils/gradeCalculations.tsx) together with the course editing  *)
(* handlers that produce its inputs (AssignmentTable, AssignmentRow,       *)
(* GroupManager).                                                          *)
(*                                                                         *)
(* JavaScript numbers are modelled as exact rationals: a value is a record *)
(* [k, n, d] whose kind k is "null" (null / undefined), "num" (the         *)
(* rational n/d in lowest terms, d > 0), "nan" (NaN) or "inf" (an          *)
(* infinity of sign n).  Rounding of IEEE doubles is not modelled.         *)
(* A string s is the record [k |-> "str", s |-> s].                        *)
(***************************************************************************)
EXTENDS Integers, Sequences, FiniteSets

VARIABLES
    assignments,        \* the course's assignment documents, in table order
    groups,             \* the course's assignment group documents
    pc,                 \* "loaded": data arrived; "rendered": the page has rendered
    overallPercentage,  \* CourseView's memoized calculateOverallGrade result
    rows,               \* AssignmentTable's assignmentsWithCalculatedData
    gradeCutoffs,       \* the course document's gradeCutoffs field
    letterGrade         \* CourseView's memoized getLetterGrade result

vars == <<assignments, groups, pc, overallPercentage, rows, gradeCutoffs,
          letterGrade>>

----------------------------------------------------------------------------
(* Bounds of the explored courses *)

MaxAssignments == 2
MaxGroups == 1
MaxCutoffs == 3

MaxEditedGroups == 2

----------------------------------------------------------------------------
(* Numbers *)

Abs(x) == IF x < 0 THEN 0 - x ELSE x

Sign(x) == IF x < 0 THEN 0 - 1 ELSE IF x > 0 THEN 1 ELSE 0

RECURSIVE GCD(_, _)
GCD(a, b) == IF b = 0 THEN a ELSE GCD(b, a % b)

NULL == [k |-> "null", n |-> 0, d |-> 1]

NaN == [k |-> "nan", n |-> 0, d |-> 1]

Inf(s) == [k |-> "inf", n |-> s, d |-> 1]

\* the rational n/d, d # 0, in lowest terms with a positive denominator
Rat(n, d) ==
    LET g == GCD(Abs(n), Abs(d))
        s == Sign(d)
    IN  [k |-> "num", n |-> (s * n) \div g, d |-> Abs(d) \div g]

Num(i) == [k |-> "num", n |-> i, d |-> 1]

\* typeof x === "number"
IsNumber(x) == x.k \in {"num", "nan", "inf"}

\* sign of a number that is not NaN
SignOf(x) == IF x.k = "inf" THEN x.n ELSE Sign(x.n)

\* x + y on numbers
Plus(x, y) ==
    IF x.k = "nan" \/ y.k = "nan" THEN NaN
    ELSE IF x.k = "inf" /\ y.k = "inf"
         THEN IF x.n = y.n THEN x ELSE NaN
    ELSE IF x.k = "inf" THEN x
    ELSE IF y.k = "inf" THEN y
    ELSE Rat(x.n * y.d + y.n * x.d, x.d * y.d)

\* x * y on numbers
Times(x, y) ==
    IF x.k = "nan" \/ y.k = "nan" THEN NaN
    ELSE IF x.k = "inf" \/ y.k = "inf"
         THEN IF SignOf(x) * SignOf(y) = 0 THEN NaN
              ELSE Inf(SignOf(x) * SignOf(y))
    ELSE Rat(x.n * y.n, x.d * y.d)

\* x / y on numbers: a zero divisor gives an infinity or NaN, as in JavaScript
Divide(x, y) ==
    IF x.k = "nan" \/ y.k = "nan" THEN NaN
    ELSE IF x.k = "inf"
         THEN IF y.k = "inf" THEN NaN
              ELSE Inf(IF SignOf(y) < 0 THEN 0 - x.n ELSE x.n)
    ELSE IF y.k = "inf" THEN Num(0)
    ELSE IF y.n = 0
         THEN IF x.n = 0 THEN NaN ELSE Inf(Sign(x.n))
    ELSE Rat(x.n * y.d, x.d * y.n)

\* x > y on numbers (false when either is NaN)
Greater(x, y) ==
    IF x.k = "nan" \/ y.k = "nan" THEN FALSE
    ELSE IF x.k = "inf" THEN x.n > 0 /\ ~(y.k = "inf" /\ y.n > 0)
    ELSE IF y.k = "inf" THEN y.n < 0
    ELSE x.n * y.d > y.n * x.d

\* x <= y on numbers (false when either is NaN)
LessEq(x, y) ==
    IF x.k = "nan" \/ y.k = "nan" THEN FALSE ELSE ~Greater(x, y)

\* x === 0
IsZero(x) == x.k = "num" /\ x.n = 0

\* Math.max(0, x)
MaxZero(x) ==
    IF x.k = "nan" THEN NaN ELSE IF Greater(x, Num(0)) THEN x ELSE Num(0)

\* x || 0 : null, NaN and 0 are falsy
OrZero(x) == IF x.k \in {"null", "nan"} THEN Num(0) ELSE x

\* x - y on numbers
Minus(x, y) == Plus(x, Times(Num(0 - 1), y))

\* x >= y on numbers (false when either is NaN)
GreaterEq(x, y) ==
    IF x.k = "nan" \/ y.k = "nan" THEN FALSE ELSE ~Greater(y, x)

\* the string s
Str(s) == [k |-> "str", s |-> s]

\* typeof x === "string"
IsString(x) == x.k = "str"

\* a value that is not an array (undefined, null)
NotAnArray == << [k |-> "undefined"] >>

\* Array.isArray(x)
isArray(x) == x # NotAnArray

----------------------------------------------------------------------------
(* gradeCalculations.tsx *)

NoGroup == 0

\* as safePercentage, but a total of 0 is divided by
safePercentageOfAnyTotal(score, total) ==
    IF score.k = "null" \/ total.k = "null"
       \/ ~IsNumber(score) \/ ~IsNumber(total)
    THEN NULL
    ELSE Divide(score, total)

\* as safePercentage, but a missing percentage counts as a score of 0
percentageOrZero(score, total) ==
    IF score.k = "null" \/ total.k = "null"
       \/ ~IsNumber(score) \/ ~IsNumber(total) \/ IsZero(total)
    THEN Num(0)
    ELSE Divide(score, total)

safePercentage(score, total) ==
    IF score.k = "null" \/ total.k = "null"
       \/ ~IsNumber(score) \/ ~IsNumber(total) \/ IsZero(total)
    THEN NULL
    ELSE Divide(score, total)

\* as isValidWeight, but a weight counts only above 1
isWeightAboveOne(weight) == IsNumber(weight) /\ Greater(weight, Num(1))

isValidWeight(weight) == IsNumber(weight) /\ Greater(weight, Num(0))

\* groups.find((g) => g.id === id): index of the first match, 0 when none
RECURSIVE FindGroup(_, _, _)
FindGroup(gs, id, i) ==
    IF i > Len(gs) THEN 0
    ELSE IF gs[i].id = id THEN i
    ELSE FindGroup(gs, id, i + 1)

\* as groupAssignments, but dropped members stay siblings
groupAssignmentsWithDropped(allAssignments, gid) ==
    SelectSeq(allAssignments, LAMBDA a : a.groupId = gid)

\* as groupAssignments, but only members with a score are siblings
groupAssignmentsWithScore(allAssignments, gid) ==
    SelectSeq(allAssignments,
              LAMBDA a : a.groupId = gid /\ ~a.isDropped /\ a.score.k # "null")

\* allAssignments.filter((a) => a.groupId === group.id && !a.isDropped)
groupAssignments(allAssignments, gid) ==
    SelectSeq(allAssignments, LAMBDA a : a.groupId = gid /\ ~a.isDropped)

\* as relWeight, but a member without a relative weight brings its direct weight
relWeightOrWeight(a) ==
    IF IsNumber(a.relativeWeightInGroup) THEN a.relativeWeightInGroup
    ELSE IF IsNumber(a.weight) THEN a.weight ELSE Num(0)

relWeight(a) ==
    IF IsNumber(a.relativeWeightInGroup) THEN a.relativeWeightInGroup ELSE Num(0)

\* as totalRelativeWeightInGroup, but negative relative weights are summed too
RECURSIVE totalOfAllRelativeWeights(_, _, _)
totalOfAllRelativeWeights(ga, i, acc) ==
    IF i > Len(ga) THEN acc
    ELSE totalOfAllRelativeWeights(ga, i + 1, Plus(acc, relWeight(ga[i])))

\* the forEach accumulating the positive relative weights, from index i on,
\* starting from the running total acc
RECURSIVE totalRelativeWeightInGroup(_, _, _)
totalRelativeWeightInGroup(ga, i, acc) ==
    IF i > Len(ga) THEN acc
    ELSE totalRelativeWeightInGroup(ga, i + 1,
             IF Greater(relWeight(ga[i]), Num(0))
             THEN Plus(acc, relWeight(ga[i]))
             ELSE acc)

\* as groupUsesManualWeight, but any numeric relative weight switches the group
groupUsesAnyRelativeWeight(ga) ==
    \E i \in 1..Len(ga) : IsNumber(ga[i].relativeWeightInGroup)

groupUsesManualWeight(ga) ==
    \E i \in 1..Len(ga) :
        /\ IsNumber(ga[i].relativeWeightInGroup)
        /\ Greater(ga[i].relativeWeightInGroup, Num(0))

\* as directWeight, but only a positive weight is a weight
directWeightIfPositive(assignment) ==
    IF isValidWeight(assignment.weight) THEN assignment.weight ELSE NULL

\* not grouped: the direct weight when it is a number
directWeight(assignment) ==
    IF IsNumber(assignment.weight) THEN assignment.weight ELSE NULL

\* as hasPositiveWeight, but any numeric weight passes
hasNumericWeight(group) == IsNumber(group.weight)

\* typeof group.weight === "number" && group.weight > 0
hasPositiveWeight(group) ==
    IsNumber(group.weight) /\ ~LessEq(group.weight, Num(0))

\* manual relative weighting of the group's non-dropped members ga
manualWeight(assignment, group, ga) ==
    LET total == totalRelativeWeightInGroup(ga, 1, Num(0)) IN
    IF IsZero(total) THEN Num(0)
    ELSE Times(group.weight, Divide(relWeight(assignment), total))

\* as equalWeight, but the group's weight is split among its graded members
equalWeightAmongGraded(group, ga) ==
    LET graded == SelectSeq(ga, LAMBDA a : IsNumber(a.score)) IN
    IF Len(graded) = 0 THEN Num(0)
    ELSE Divide(group.weight, Num(Len(graded)))

\* equal weighting of the group's non-dropped members ga
equalWeight(group, ga) == Divide(group.weight, Num(Len(ga)))

calculateEffectiveWeight(assignment, allAssignments, gs) ==
    IF assignment.isDropped THEN Num(0)
    ELSE IF assignment.groupId = NoGroup THEN directWeight(assignment)
    ELSE
      LET gi == FindGroup(gs, assignment.groupId, 1) IN
      IF gi = 0 THEN Num(0)
      ELSE IF ~hasPositiveWeight(gs[gi]) THEN Num(0)
      ELSE
        LET ga == groupAssignments(allAssignments, gs[gi].id) IN
        IF Len(ga) = 0 THEN Num(0)
        ELSE IF groupUsesManualWeight(ga)
        THEN manualWeight(assignment, gs[gi], ga)
        ELSE equalWeight(gs[gi], ga)

\* as calculateAssignmentContribution, but extra credit counts in the total
contributionCountingExtraCredit(assignment, weight) ==
    LET percentage == safePercentage(assignment.score, assignment.totalScore) IN
    IF percentage.k = "null" \/ ~isValidWeight(weight)
    THEN [pointsObtained |-> Num(0), pointsTotal |-> Num(0)]
    ELSE [pointsObtained |-> Times(percentage, weight), pointsTotal |-> weight]

\* as calculateAssignmentContribution, but the points obtained are the points
\* missed
contributionOfMissedPoints(assignment, weight) ==
    LET percentage == safePercentage(assignment.score, assignment.totalScore) IN
    IF percentage.k = "null" \/ ~isValidWeight(weight)
    THEN [pointsObtained |-> Num(0), pointsTotal |-> Num(0)]
    ELSE [pointsObtained |-> Times(Minus(Num(1), percentage), weight),
          pointsTotal |-> IF assignment.isExtraCredit THEN Num(0) ELSE weight]

\* as calculateAssignmentContribution, but every assignment counts once in
\* the total
contributionOfUnitWeight(assignment, weight) ==
    LET percentage == safePercentage(assignment.score, assignment.totalScore) IN
    IF percentage.k = "null" \/ ~isValidWeight(weight)
    THEN [pointsObtained |-> Num(0), pointsTotal |-> Num(0)]
    ELSE [pointsObtained |-> Times(percentage, weight),
          pointsTotal |-> IF assignment.isExtraCredit THEN Num(0) ELSE Num(1)]

calculateAssignmentContribution(assignment, weight) ==
    LET percentage == safePercentage(assignment.score, assignment.totalScore) IN
    IF percentage.k = "null" \/ ~isValidWeight(weight)
    THEN [pointsObtained |-> Num(0), pointsTotal |-> Num(0)]
    ELSE [pointsObtained |-> Times(percentage, weight),
          pointsTotal |-> IF assignment.isExtraCredit THEN Num(0) ELSE weight]

\* the forEach of calculateOverallGrade over the non-dropped assignments, from
\* index i on, starting from the totals acc
RECURSIVE accumulate(_, _, _, _, _)
accumulate(as, allAssignments, gs, i, acc) ==
    IF i > Len(as) THEN acc
    ELSE LET weight == OrZero(calculateEffectiveWeight(as[i], allAssignments, gs))
             c == calculateAssignmentContribution(as[i], weight)
         IN  accumulate(as, allAssignments, gs, i + 1,
                 [totalPointsObtained |-> Plus(acc.totalPointsObtained, c.pointsObtained),
                  totalPointsTotal |-> Plus(acc.totalPointsTotal, c.pointsTotal)])

\* as finalPercentage, but no points obtained counts as no grade
finalPercentageOfPoints(t) ==
    IF IsZero(t.totalPointsTotal) \/ IsZero(t.totalPointsObtained) THEN NULL
    ELSE MaxZero(Times(Divide(t.totalPointsObtained, t.totalPointsTotal), Num(100)))

\* as finalPercentage, but the percentage is capped at 100
finalPercentageCapped(t) ==
    IF IsZero(t.totalPointsTotal) THEN NULL
    ELSE LET f == MaxZero(Times(Divide(t.totalPointsObtained, t.totalPointsTotal),
                                Num(100)))
         IN  IF Greater(f, Num(100)) THEN Num(100) ELSE f

\* as finalPercentage, but a negative percentage is returned as it is
finalPercentageUnfloored(t) ==
    IF IsZero(t.totalPointsTotal) THEN NULL
    ELSE Times(Divide(t.totalPointsObtained, t.totalPointsTotal), Num(100))

\* the final percentage of the accumulated totals t
finalPercentage(t) ==
    IF IsZero(t.totalPointsTotal) THEN NULL
    ELSE MaxZero(Times(Divide(t.totalPointsObtained, t.totalPointsTotal), Num(100)))

calculateOverallGrade(allAssignments, gs) ==
    LET as == SelectSeq(allAssignments, LAMBDA a : ~a.isDropped)
    IN  finalPercentage(
            accumulate(as, allAssignments, gs, 1,
                [totalPointsObtained |-> Num(0), totalPointsTotal |-> Num(0)]))

\* the divisors of the divisions a call of safePercentage executes
divisorsOfSafePercentage(score, total) ==
    IF safePercentage(score, total).k = "null" THEN {} ELSE {total}

\* the divisors of the divisions a call of calculateEffectiveWeight executes
divisorsOfEffectiveWeight(assignment, allAssignments, gs) ==
    IF assignment.isDropped \/ assignment.groupId = NoGroup THEN {}
    ELSE
      LET gi == FindGroup(gs, assignment.groupId, 1) IN
      IF gi = 0 THEN {}
      ELSE IF ~hasPositiveWeight(gs[gi]) THEN {}
      ELSE
        LET ga == groupAssignments(allAssignments, gs[gi].id) IN
        IF Len(ga) = 0 THEN {}
        ELSE IF groupUsesManualWeight(ga)
        THEN IF IsZero(totalRelativeWeightInGroup(ga, 1, Num(0))) THEN {}
             ELSE {totalRelativeWeightInGroup(ga, 1, Num(0))}
        ELSE {Num(Len(ga))}

\* the divisors of the divisions a call of calculateOverallGrade executes
divisorsOfOverallGrade(allAssignments, gs) ==
    LET as == SelectSeq(allAssignments, LAMBDA a : ~a.isDropped)
        t == accumulate(as, allAssignments, gs, 1,
                 [totalPointsObtained |-> Num(0), totalPointsTotal |-> Num(0)])
    IN  UNION {divisorsOfEffectiveWeight(as[i], allAssignments, gs)
                   \cup divisorsOfSafePercentage(as[i].score, as[i].totalScore) :
               i \in 1..Len(as)}
        \cup (IF finalPercentage(t).k = "null" THEN {} ELSE {t.totalPointsTotal})

\* as isUngraded, but no percentage is ungraded
neverUngraded(percentage) == FALSE

\* percentage === null
isUngraded(percentage) == percentage.k = "null"

\* as isValidCutoff, but the grade is not looked at
hasNumericMinPercentage(c) == IsNumber(c.minPercentage)

\* typeof c.minPercentage === "number" && typeof c.grade === "string"
isValidCutoff(c) == IsNumber(c.minPercentage) /\ IsString(c.grade)

\* (a, b) => b.minPercentage - a.minPercentage
compareCutoffs(a, b) == Minus(b.minPercentage, a.minPercentage)

\* the comparator says that a sorts after b
sortsAfter(a, b) ==
    LET c == compareCutoffs(a, b) IN c.k # "nan" /\ SignOf(c) > 0

\* as insertCutoff, but c goes before the cutoffs that compare equal to it
insertCutoffBeforeEqual(sorted, c) ==
    LET after == {i \in 1..Len(sorted) : ~sortsAfter(c, sorted[i])}
        pos == IF after = {} THEN Len(sorted) + 1
               ELSE CHOOSE i \in after : \A j \in after : i <= j
    IN  SubSeq(sorted, 1, pos - 1) \o <<c>> \o SubSeq(sorted, pos, Len(sorted))

\* one step of the stable sort: c goes before the first cutoff that sorts
\* after it, behind every cutoff that compares equal to it
insertCutoff(sorted, c) ==
    LET after == {i \in 1..Len(sorted) : sortsAfter(sorted[i], c)}
        pos == IF after = {} THEN Len(sorted) + 1
               ELSE CHOOSE i \in after : \A j \in after : i <= j
    IN  SubSeq(sorted, 1, pos - 1) \o <<c>> \o SubSeq(sorted, pos, Len(sorted))

\* Array.prototype.sort with compareCutoffs (a stable sort), from index i on,
\* the cutoffs before i being sorted in acc
RECURSIVE sortCutoffs(_, _, _)
sortCutoffs(cs, i, acc) ==
    IF i > Len(cs) THEN acc
    ELSE sortCutoffs(cs, i + 1, insertCutoff(acc, cs[i]))

\* as sortedCutoffs, but the filtered cutoffs stay in the caller's order
filteredCutoffs(cutoffs) ==
    SelectSeq(IF isArray(cutoffs) THEN cutoffs ELSE <<>>, isValidCutoff)

\* validCutoffs.filter(...).sort(...)
sortedCutoffs(cutoffs) ==
    sortCutoffs(SelectSeq(IF isArray(cutoffs) THEN cutoffs ELSE <<>>,
                          isValidCutoff),
                1, <<>>)

\* as meetsCutoff, but the comparison is turned around
staysBelowCutoff(percentage, cutoff) == LessEq(percentage, cutoff.minPercentage)

\* as meetsCutoff, but the lower bound is exclusive
exceedsCutoff(percentage, cutoff) == Greater(percentage, cutoff.minPercentage)

\* percentage >= cutoff.minPercentage
meetsCutoff(percentage, cutoff) == GreaterEq(percentage, cutoff.minPercentage)

\* the for loop: index of the first cutoff the percentage meets, from index i
\* on, 0 when there is none
RECURSIVE firstMetCutoff(_, _, _)
firstMetCutoff(sorted, percentage, i) ==
    IF i > Len(sorted) THEN 0
    ELSE IF meetsCutoff(percentage, sorted[i]) THEN i
    ELSE firstMetCutoff(sorted, percentage, i + 1)

\* as lowestGrade, but without the cutoff at or below 0
lowestGradeIsF(sorted) == Str("F")

\* sortedCutoffs.find((c) => c.minPercentage <= 0)?.grade || "F"
lowestGrade(sorted) ==
    LET low == {i \in 1..Len(sorted) : LessEq(sorted[i].minPercentage, Num(0))}
    IN  IF low = {} THEN Str("F")
        ELSE LET i == CHOOSE x \in low : \A y \in low : x <= y
             IN  IF sorted[i].grade = Str("") THEN Str("F") ELSE sorted[i].grade

getLetterGrade(percentage, cutoffs) ==
    IF isUngraded(percentage) THEN Str("-")
    ELSE LET sorted == sortedCutoffs(cutoffs)
             i == firstMetCutoff(sorted, percentage, 1)
         IN  IF i # 0 THEN sorted[i].grade ELSE lowestGrade(sorted)

\* as cutoffsAfterGetLetterGrade, but the caller's array is sorted in place
cutoffsSortedInPlace(cutoffs) ==
    IF isArray(cutoffs) THEN sortCutoffs(cutoffs, 1, <<>>) ELSE cutoffs

\* the caller's cutoffs array after getLetterGrade returned: filter makes
\* the copy that sort reorders
cutoffsAfterGetLetterGrade(cutoffs) == cutoffs

----------------------------------------------------------------------------
(* The course page: the data the store delivers, and its rendering *)

GroupIds == 1..MaxGroups

AssignmentValues(S, T, W, X, R) ==
    [score : S, totalScore : T, weight : W,
     isDropped : BOOLEAN, isExtraCredit : X,
     groupId : {NoGroup} \cup GroupIds,
     relativeWeightInGroup : R]

GroupValues(GW) == [id : GroupIds, weight : GW]

DistinctIds(gs) == \A i, j \in 1..Len(gs) : gs[i].id = gs[j].id => i = j

\* a course arrives from the store and nothing is rendered yet: assignments
\* over the value set A, groups with unique ids over the value set G, and
\* the course's gradeCutoffs field out of C
Loaded(A, G, C) ==
    /\ \E n \in 0..MaxAssignments : assignments \in [1..n -> A]
    /\ \E m \in 0..MaxGroups :
          /\ groups \in [1..m -> G]
          /\ DistinctIds(groups)
    /\ gradeCutoffs \in C
    /\ pc = "loaded"
    /\ overallPercentage = NULL
    /\ letterGrade = NULL
    /\ rows = <<>>

\* AssignmentTable: effectiveWeight and groupUsesManualWeight of one row
assignmentsWithCalculatedData(assignment, orderedAssignments, gs) ==
    [effectiveWeight |->
         calculateEffectiveWeight(assignment, orderedAssignments, gs),
     groupUsesManualWeight |->
         IF assignment.groupId # NoGroup
         THEN groupUsesManualWeight(
                  groupAssignments(orderedAssignments, assignment.groupId))
         ELSE FALSE]

\* course.gradeCutoffs || []
safeCutoffs(cutoffs) == IF isArray(cutoffs) THEN cutoffs ELSE <<>>

\* CourseView's letterGrade memo
CourseViewLetterGrade(percentage, cutoffs) ==
    IF percentage.k = "null" THEN Str("-")
    ELSE getLetterGrade(percentage, cutoffs)

\* the page renders: CourseView computes the overall percentage and its
\* letter, and AssignmentTable the calculated data of every row
Render ==
    LET percentage == calculateOverallGrade(assignments, groups) IN
    /\ pc = "loaded"
    /\ pc' = "rendered"
    /\ overallPercentage' = percentage
    /\ letterGrade' =
          CourseViewLetterGrade(percentage, safeCutoffs(gradeCutoffs))
    /\ gradeCutoffs' =
          IF percentage.k = "null" \/ ~isArray(gradeCutoffs)
          THEN gradeCutoffs
          ELSE cutoffsAfterGetLetterGrade(gradeCutoffs)
    /\ rows' = [i \in 1..Len(assignments) |->
                  assignmentsWithCalculatedData(assignments[i], assignments, groups)]
    /\ UNCHANGED <<assignments, groups>>

Next == Render

\* getLetterGrade is called with the percentage and the cutoffs at hand
CallGetLetterGrade ==
    /\ pc = "called"
    /\ pc' = "returned"
    /\ letterGrade' = getLetterGrade(overallPercentage, gradeCutoffs)
    /\ gradeCutoffs' =
          IF isUngraded(overallPercentage) THEN gradeCutoffs
          ELSE cutoffsAfterGetLetterGrade(gradeCutoffs)
    /\ UNCHANGED <<assignments, groups, overallPercentage, rows>>

NextLetters == CallGetLetterGrade

\* the cutoffs a course keeps after its cutoffs were edited and saved
SavedCutoffs ==
    << [grade |-> Str("A"), minPercentage |-> Num(90)],
       [grade |-> Str("B"), minPercentage |-> Num(50)],
       [grade |-> Str("F"), minPercentage |-> Num(0)] >>

\* courses with varied scores, weights, flags and relative weights
ScoreValues == {NULL, Num(0 - 50), Num(0), Num(50)}

TotalScoreValues == {Num(0), Num(100)}

WeightValues == {Num(0), Num(1), Num(2)}

RelativeWeightValues == {NULL, Num(1), Num(2)}

GroupWeightValues == {Num(2)}

Init ==
    Loaded(AssignmentValues(ScoreValues, TotalScoreValues, WeightValues,
                            BOOLEAN, RelativeWeightValues),
           GroupValues(GroupWeightValues), {SavedCutoffs})

Spec == Init /\ [][Next]_vars

\* courses with malformed, zero and negative weights, relative weights and
\* group weights
AnyWeightValues == {NULL, Num(0 - 1), Num(0), Num(1), Num(2)}

InitWeights ==
    Loaded(AssignmentValues({NULL, Num(0), Num(100)}, {Num(100)},
                            {NULL, Num(0 - 1), Num(0), Num(2)},
                            {FALSE}, AnyWeightValues),
           GroupValues(AnyWeightValues), {SavedCutoffs})

SpecWeights == InitWeights /\ [][Next]_vars

\* a value of a score field that is not a number
Text == Str("n/a")

\* courses without dropped assignments whose scores and total scores are
\* missing, not numbers, zero or negative, and whose weights are negative
InitScores ==
    Loaded({a \in AssignmentValues({NULL, Text, Num(0 - 50), Num(50)},
                                   {NULL, Text, Num(0), Num(0 - 100), Num(100)},
                                   {Num(0 - 1), Num(2)}, BOOLEAN,
                                   {Num(0 - 1), Num(1)}) : ~a.isDropped},
           GroupValues({Num(0 - 1), Num(2)}), {SavedCutoffs})

SpecScores == InitScores /\ [][Next]_vars

\* cutoffs with grades that are strings, empty or missing and minimum
\* percentages that are missing, negative, 0 or positive
CutoffValues ==
    [grade : {Str("A"), Str("B"), Str(""), NULL},
     minPercentage : {NULL, Num(0 - 20), Num(0), Num(50), Num(90)}]

\* the arrays of at most MaxCutoffs cutoffs over the value set C, in any order
CutoffArrays(C) == UNION {[1..n -> C] : n \in 0..MaxCutoffs}

PercentageValues ==
    {NULL, Num(0 - 30), Num(0 - 20), Num(0 - 10), Num(0), Num(50),
     Rat(179, 2), Num(90), Num(120)}

\* getLetterGrade is about to be called with any percentage and any cutoffs
InitLetters ==
    /\ assignments = <<>>
    /\ groups = <<>>
    /\ rows = <<>>
    /\ pc = "called"
    /\ overallPercentage \in PercentageValues
    /\ gradeCutoffs \in CutoffArrays(CutoffValues) \cup {NotAnArray}
    /\ letterGrade = NULL

SpecLetters == InitLetters /\ [][NextLetters]_vars

\* courses whose gradeCutoffs field is missing or holds cutoffs in any order,
\* some of them without a grade or a minimum percentage, and whose
\* assignments are ungraded or graded, with or without a group
InitCutoffs ==
    Loaded({a \in AssignmentValues({NULL, Num(0), Num(50), Num(95)}, {Num(100)},
                                   {Num(1)}, {FALSE}, {NULL}) : ~a.isDropped},
           GroupValues({Num(2)}),
           CutoffArrays([grade : {Str("A"), Str("B"), NULL},
                         minPercentage : {NULL, Num(0), Num(50), Num(90)}])
               \cup {NotAnArray})

SpecCutoffs == InitCutoffs /\ [][Next]_vars

\* courses whose scores, total scores, weights and relative weights may be
\* NaN
InitNaN ==
    Loaded(AssignmentValues({NaN, Num(50)}, {NaN, Num(100)}, {NaN, Num(1)},
                            {FALSE}, {NULL, NaN, Num(1)}),
           GroupValues({Num(2)}), {SavedCutoffs})

SpecNaN == InitNaN /\ [][Next]_vars

----------------------------------------------------------------------------
(* Properties *)

Rendered == pc = "rendered"

Indices(as) == 1..Len(as)

\* the sum of f[i] over the finite index set S
RECURSIVE SumOver(_, _)
SumOver(f, S) ==
    IF S = {} THEN Num(0)
    ELSE LET i == CHOOSE x \in S : TRUE
         IN  Plus(f[i], SumOver(f, S \ {i}))

\* score/totalScore exists: both are numbers and totalScore is not 0
Computable(a) ==
    a.score.k = "num" /\ a.totalScore.k = "num" /\ a.totalScore.n # 0

Percentage(a) == Rat(a.score.n * a.totalScore.d, a.score.d * a.totalScore.n)

EffectiveWeightOf(as, gs, i) == calculateEffectiveWeight(as[i], as, gs)

\* the non-dropped assignments with a computable percentage and a positive
\* effective weight
Contributing(as, gs) ==
    {i \in Indices(as) :
        /\ ~as[i].isDropped
        /\ Computable(as[i])
        /\ EffectiveWeightOf(as, gs, i).k = "num"
        /\ EffectiveWeightOf(as, gs, i).n > 0}

Numerator(as, gs, S) ==
    SumOver([i \in S |-> Times(Percentage(as[i]), EffectiveWeightOf(as, gs, i))], S)

Denominator(as, gs, S) ==
    SumOver([i \in S |-> EffectiveWeightOf(as, gs, i)],
            {i \in S : ~as[i].isExtraCredit})

\* max(0, 100 * N / D), null when D = 0
GradeOf(N, D) ==
    IF D.n = 0 THEN NULL
    ELSE IF N.n * D.n < 0 THEN Num(0)
    ELSE Rat(100 * N.n * D.d, N.d * D.n)

\* C1: the overall grade is max(0, 100 * N / D), N the sum of p * w over the
\* non-dropped assignments with a computable percentage p and a positive
\* effective weight w, D the sum of w over those that are not extra credit;
\* it is null when D = 0.
C1_OverallGradeIsWeightedMean ==
    Rendered =>
        overallPercentage =
            GradeOf(Numerator(assignments, groups, Contributing(assignments, groups)),
                    Denominator(assignments, groups, Contributing(assignments, groups)))

\* two assignments contribute, one of them grouped and one extra credit, and
\* the grade is a number that is neither 0 nor 100
C1_Witness ==
    /\ Rendered
    /\ Cardinality(Contributing(assignments, groups)) = 2
    /\ \E i, j \in Contributing(assignments, groups) :
          /\ assignments[i].groupId # NoGroup
          /\ assignments[j].isExtraCredit
    /\ overallPercentage.k = "num"
    /\ overallPercentage \notin {Num(0), Num(100)}

RemoveAt(as, i) ==
    [j \in 1..(Len(as) - 1) |-> IF j < i THEN as[j] ELSE as[j + 1]]

\* C2: a dropped assignment has effective weight 0, and the overall grade is
\* the grade of the course without it, whatever its other fields are.
C2_DroppedNeverCounts ==
    Rendered =>
        \A i \in Indices(assignments) :
            assignments[i].isDropped =>
                /\ rows[i].effectiveWeight = Num(0)
                /\ overallPercentage =
                       calculateOverallGrade(RemoveAt(assignments, i), groups)

\* a graded dropped member with a positive relative weight shares its group
\* with a graded member that has no relative weight, and there is a grade
C2_Witness ==
    /\ Rendered
    /\ overallPercentage.k = "num"
    /\ \E i, j \in Indices(assignments) :
          /\ assignments[i].isDropped
          /\ ~assignments[j].isDropped
          /\ assignments[i].groupId # NoGroup
          /\ assignments[j].groupId = assignments[i].groupId
          /\ assignments[i].relativeWeightInGroup = Num(2)
          /\ assignments[j].relativeWeightInGroup = NULL
          /\ Computable(assignments[i])
          /\ Computable(assignments[j])

\* C3 as stated: every assignment without a group whose weight is a number w
\* has effective weight w.
C3_UngroupedWeightIsDirectWeight ==
    Rendered =>
        \A i \in Indices(assignments) :
            (assignments[i].groupId = NoGroup /\ assignments[i].weight.k = "num")
                => rows[i].effectiveWeight = assignments[i].weight

\* C3 amended: every assignment that is not dropped, has no group and whose
\* weight is a number w has effective weight w, whatever the other
\* assignments and the groups are.
C3_UndroppedUngroupedWeightIsDirectWeight ==
    Rendered =>
        \A i \in Indices(assignments) :
            (/\ ~assignments[i].isDropped
             /\ assignments[i].groupId = NoGroup
             /\ assignments[i].weight.k = "num")
                => rows[i].effectiveWeight = assignments[i].weight

\* an assignment without a group has a negative weight, beside a member of an
\* existing group
C3_Witness ==
    /\ Rendered
    /\ Len(groups) = 1
    /\ \E i, j \in Indices(assignments) :
          /\ ~assignments[i].isDropped
          /\ assignments[i].groupId = NoGroup
          /\ assignments[i].weight = Num(0 - 1)
          /\ rows[i].effectiveWeight = Num(0 - 1)
          /\ assignments[j].groupId = groups[1].id

\* the non-dropped members of group gid
Members(as, gid) ==
    {i \in Indices(as) : as[i].groupId = gid /\ ~as[i].isDropped}

PositiveRelative(a) ==
    a.relativeWeightInGroup.k = "num" /\ a.relativeWeightInGroup.n > 0

\* the relative weight of a, 0 if absent
RelativeOf(a) ==
    IF a.relativeWeightInGroup.k = "num" THEN a.relativeWeightInGroup ELSE Num(0)

PositiveGroup(g) == g.weight.k = "num" /\ g.weight.n > 0

\* C4: in a group of positive weight G whose k >= 1 non-dropped members all
\* lack a positive relative weight, each such member has effective weight
\* G / k, whatever the scores are, and these weights sum to G.
C4_EqualSplitByMemberCount ==
    Rendered =>
        \A g \in Indices(groups) :
            LET M == Members(assignments, groups[g].id) IN
            (/\ PositiveGroup(groups[g])
             /\ M # {}
             /\ \A i \in M : ~PositiveRelative(assignments[i]))
                => /\ \A i \in M :
                        rows[i].effectiveWeight =
                            Rat(groups[g].weight.n,
                                groups[g].weight.d * Cardinality(M))
                   /\ SumOver([i \in M |-> rows[i].effectiveWeight], M)
                        = groups[g].weight

\* two members split a group equally: one is ungraded, one graded, and
\* their relative weights are 0 and negative
C4_Witness ==
    /\ Rendered
    /\ Len(groups) = 1
    /\ groups[1].weight = Num(1)
    /\ Members(assignments, groups[1].id) = {1, 2}
    /\ assignments[1].score = NULL
    /\ assignments[2].score = Num(100)
    /\ assignments[1].relativeWeightInGroup = Num(0)
    /\ assignments[2].relativeWeightInGroup = Num(0 - 1)
    /\ rows[1].effectiveWeight = Rat(1, 2)

\* C5: in a group of positive weight G in manual mode, each non-dropped
\* member has effective weight G * ri / S, ri its relative weight (0 if
\* absent) and S the sum of the positive relative weights of the non-dropped
\* members; the weights of the members with a positive ri sum to G.
C5_ManualSplitByRelativeWeight ==
    Rendered =>
        \A g \in Indices(groups) :
            LET M == Members(assignments, groups[g].id)
                P == {i \in M : PositiveRelative(assignments[i])}
                S == SumOver([i \in P |-> assignments[i].relativeWeightInGroup], P)
            IN  (PositiveGroup(groups[g]) /\ P # {})
                    => /\ \A i \in M :
                            rows[i].effectiveWeight =
                                Rat(groups[g].weight.n * RelativeOf(assignments[i]).n * S.d,
                                    groups[g].weight.d * RelativeOf(assignments[i]).d * S.n)
                       /\ SumOver([i \in P |-> rows[i].effectiveWeight], P)
                            = groups[g].weight

\* a manual group of weight 2 whose members have relative weights 1 and 2
C5_Witness ==
    /\ Rendered
    /\ Len(groups) = 1
    /\ groups[1].weight = Num(2)
    /\ Members(assignments, groups[1].id) = {1, 2}
    /\ assignments[1].relativeWeightInGroup = Num(1)
    /\ assignments[2].relativeWeightInGroup = Num(2)
    /\ rows[1].effectiveWeight = Rat(2, 3)
    /\ rows[2].effectiveWeight = Rat(4, 3)

\* the sum of the positive relative weights of the members M
PositiveRelativeSum(as, M) ==
    SumOver([i \in {j \in M : PositiveRelative(as[j])} |-> as[i].relativeWeightInGroup],
            {j \in M : PositiveRelative(as[j])})

\* G * r / S
ManualShare(G, r, S) == Rat(G.n * r.n * S.d, G.d * r.d * S.n)

\* some non-dropped member of group gid has a positive relative weight
ManualPolicy(as, gid) ==
    \E j \in Members(as, gid) : PositiveRelative(as[j])

\* C6: a group is weighted manually exactly when a non-dropped member has a
\* relative weight > 0, for every member alike: the table's flag says so on
\* every row of the group; in a group of positive weight a member then gets
\* weight 0 if its relative weight is absent or 0, and otherwise (all the
\* relative weights null, 0 or negative) the equal share.
C6_ManualExactlyWhenPositiveRelative ==
    Rendered =>
        \A i \in Indices(assignments) :
            LET a == assignments[i]
                M == Members(assignments, a.groupId)
            IN  a.groupId # NoGroup =>
                  /\ rows[i].groupUsesManualWeight = ManualPolicy(assignments, a.groupId)
                  /\ \A g \in Indices(groups) :
                        (groups[g].id = a.groupId /\ PositiveGroup(groups[g])
                         /\ ~a.isDropped) =>
                            IF ManualPolicy(assignments, a.groupId)
                            THEN /\ rows[i].effectiveWeight =
                                      ManualShare(groups[g].weight, RelativeOf(a),
                                                  PositiveRelativeSum(assignments, M))
                                 /\ RelativeOf(a) = Num(0)
                                      => rows[i].effectiveWeight = Num(0)
                            ELSE rows[i].effectiveWeight =
                                    Rat(groups[g].weight.n,
                                        groups[g].weight.d * Cardinality(M))

\* a manual group of positive weight: one member has a positive relative
\* weight and the other, with none, gets weight 0
C6_Witness ==
    /\ Rendered
    /\ Len(groups) = 1
    /\ PositiveGroup(groups[1])
    /\ Members(assignments, groups[1].id) = {1, 2}
    /\ assignments[1].relativeWeightInGroup = NULL
    /\ assignments[2].relativeWeightInGroup = Num(1)
    /\ rows[1].groupUsesManualWeight
    /\ rows[1].effectiveWeight = Num(0)
    /\ rows[2].effectiveWeight = groups[1].weight

\* the assignment names a group that is missing, or whose weight is 0,
\* negative or not a number
InWeightlessGroup(a, gs) ==
    /\ a.groupId # NoGroup
    /\ \/ \A g \in Indices(gs) : gs[g].id # a.groupId
       \/ \E g \in Indices(gs) :
             /\ gs[g].id = a.groupId
             /\ (gs[g].weight.k = "null"
                 \/ (gs[g].weight.k = "num" /\ gs[g].weight.n <= 0))

\* C7: an assignment whose group is missing or has a weight that is 0,
\* negative or not a number has effective weight 0, and the overall grade is
\* the grade of the course without the members of such groups.
C7_WeightlessGroupNeverCounts ==
    Rendered =>
        /\ \A i \in Indices(assignments) :
              InWeightlessGroup(assignments[i], groups)
                  => rows[i].effectiveWeight = Num(0)
        /\ overallPercentage =
              calculateOverallGrade(
                  SelectSeq(assignments, LAMBDA a : ~InWeightlessGroup(a, groups)),
                  groups)

\* a graded member of a group of negative weight stands beside a graded
\* assignment without a group, and there is a grade
C7_Witness ==
    /\ Rendered
    /\ Len(groups) = 1
    /\ groups[1].weight = Num(0 - 1)
    /\ overallPercentage.k = "num"
    /\ \E i, j \in Indices(assignments) :
          /\ assignments[i].groupId = groups[1].id
          /\ ~assignments[i].isDropped
          /\ Computable(assignments[i])
          /\ assignments[j].groupId = NoGroup
          /\ rows[i].effectiveWeight = Num(0)

\* the contributing assignments that are not extra credit
Counted(as, gs) == {i \in Contributing(as, gs) : ~as[i].isExtraCredit}

\* C8: the overall grade is null exactly when no non-dropped assignment that
\* is not extra credit has a computable percentage and a positive effective
\* weight; otherwise it is a number, 0 when all the scores that count are 0.
C8_NullExactlyWhenNothingCounts ==
    Rendered =>
        /\ overallPercentage.k \in {"null", "num"}
        /\ overallPercentage = NULL <=> Counted(assignments, groups) = {}
        /\ (/\ Counted(assignments, groups) # {}
            /\ \A i \in Contributing(assignments, groups) :
                  assignments[i].score = Num(0))
               => overallPercentage = Num(0)

\* every score that counts is 0 and the grade is 0, not null
C8_Witness ==
    /\ Rendered
    /\ Counted(assignments, groups) # {}
    /\ \A i \in Contributing(assignments, groups) : assignments[i].score = Num(0)
    /\ overallPercentage = Num(0)

\* the example of an extra-credit assignment: 80/100 at weight 50 and extra
\* credit 10/10 at weight 10, both without a group
ExtraCreditExample ==
    << [score |-> Num(80), totalScore |-> Num(100), weight |-> Num(50),
        isDropped |-> FALSE, isExtraCredit |-> FALSE,
        groupId |-> NoGroup, relativeWeightInGroup |-> NULL],
       [score |-> Num(10), totalScore |-> Num(10), weight |-> Num(10),
        isDropped |-> FALSE, isExtraCredit |-> TRUE,
        groupId |-> NoGroup, relativeWeightInGroup |-> NULL] >>

\* C9: an extra-credit assignment with percentage p and positive effective
\* weight w contributes p * w points and no total, so the grade is that of
\* the other contributions with p * w added to the numerator alone, without
\* a cap at 100; the example gives exactly 100.
C9_ExtraCreditAddsToNumeratorOnly ==
    Rendered =>
        /\ \A i \in Contributing(assignments, groups) :
              assignments[i].isExtraCredit =>
                LET w == EffectiveWeightOf(assignments, groups, i)
                    pw == Times(Percentage(assignments[i]), w)
                    C == Contributing(assignments, groups) \ {i}
                IN  /\ calculateAssignmentContribution(assignments[i], w)
                         = [pointsObtained |-> pw, pointsTotal |-> Num(0)]
                    /\ overallPercentage =
                         GradeOf(Plus(Numerator(assignments, groups, C), pw),
                                 Denominator(assignments, groups, C))
        /\ calculateOverallGrade(ExtraCreditExample, <<>>) = Num(100)

\* extra credit lifts the grade above 100
C9_Witness ==
    /\ Rendered
    /\ \E i \in Contributing(assignments, groups) : assignments[i].isExtraCredit
    /\ overallPercentage.k = "num"
    /\ overallPercentage.n > 100 * overallPercentage.d

\* the extra-credit assignments that may be added: without a group or in an
\* existing group, with any relative weight and a score >= 0
ExtraCreditToAdd ==
    [score : {Num(0), Num(50)}, totalScore : {Num(100)}, weight : WeightValues,
     isDropped : {FALSE}, isExtraCredit : {TRUE},
     groupId : {NoGroup} \cup {groups[g].id : g \in Indices(groups)},
     relativeWeightInGroup : RelativeWeightValues]

\* C10: when every score is >= 0 and every totalScore is > 0, adding one
\* extra-credit assignment never makes the overall grade smaller, whenever
\* the grade is a number before and after.
C10_ExtraCreditNeverLowers ==
    (/\ Rendered
     /\ \A i \in Indices(assignments) :
           /\ assignments[i].score.k = "num" => assignments[i].score.n >= 0
           /\ assignments[i].totalScore.k = "num" /\ assignments[i].totalScore.n > 0)
        => \A x \in ExtraCreditToAdd :
              LET after == calculateOverallGrade(Append(assignments, x), groups) IN
              (overallPercentage.k = "num" /\ after.k = "num")
                  => ~Greater(overallPercentage, after)

\* the contribution of assignment i to the totals of calculateOverallGrade
ContributionOf(as, gs, i) ==
    calculateAssignmentContribution(as[i], OrZero(EffectiveWeightOf(as, gs, i)))

\* C11: a non-dropped assignment whose percentage is not computable (score or
\* totalScore null or not a number, or totalScore 0) contributes 0 points and
\* 0 total, and if it has no group the overall grade is the grade of the
\* course without it.
C11_UncomputableContributesNothing ==
    Rendered =>
        \A i \in Indices(assignments) :
            (~assignments[i].isDropped /\ ~Computable(assignments[i])) =>
                /\ ContributionOf(assignments, groups, i)
                     = [pointsObtained |-> Num(0), pointsTotal |-> Num(0)]
                /\ assignments[i].groupId = NoGroup
                     => overallPercentage =
                            calculateOverallGrade(RemoveAt(assignments, i), groups)

\* an assignment without a group and with a positive weight has a score
\* that is not a number, beside an assignment that gives the course a grade
C11_Witness ==
    /\ Rendered
    /\ overallPercentage.k = "num"
    /\ overallPercentage # Num(0)
    /\ \E i \in Indices(assignments) :
          /\ assignments[i].groupId = NoGroup
          /\ assignments[i].score = Text
          /\ assignments[i].totalScore = Num(100)
          /\ assignments[i].weight = Num(2)
          /\ ~assignments[i].isExtraCredit

\* C12: an overall grade that is a number is >= 0, also with negative
\* scores, negative total scores and negative weights.
C12_GradeNeverNegative ==
    Rendered =>
        (overallPercentage.k # "null" => GreaterEq(overallPercentage, Num(0)))

\* the points obtained are negative (a negative score over a positive
\* total) beside an assignment of negative weight, and the grade is 0
C12_Witness ==
    /\ Rendered
    /\ overallPercentage = Num(0)
    /\ \E i, j \in Indices(assignments) :
          /\ i \in Contributing(assignments, groups)
          /\ assignments[i].score = Num(0 - 50)
          /\ assignments[i].totalScore = Num(100)
          /\ assignments[j].weight = Num(0 - 1)
          /\ assignments[j].groupId = NoGroup
          /\ assignments[j].totalScore = Num(0 - 100)

Returned == pc = "returned"

\* the entries of a cutoffs value, none if it is not an array
Items(cutoffs) == IF cutoffs = NotAnArray THEN <<>> ELSE cutoffs

\* the cutoff has a numeric minimum percentage and a string grade
ValidCutoff(c) == c.minPercentage.k = "num" /\ c.grade.k = "str"

Valid(cs) == {i \in Indices(cs) : ValidCutoff(cs[i])}

\* x <= y on rationals
AtMost(x, y) == x.n * y.d <= y.n * x.d

\* the valid cutoffs the percentage p reaches
Met(cs, p) == {i \in Valid(cs) : AtMost(cs[i].minPercentage, p)}

\* the cutoffs of S with the greatest minimum percentage
Greatest(cs, S) ==
    {i \in S : \A j \in S : AtMost(cs[j].minPercentage, cs[i].minPercentage)}

\* C13: for a numeric percentage that reaches a valid cutoff, getLetterGrade
\* returns the grade of a valid cutoff with the greatest minimum percentage
\* that is <= the percentage, in whatever order the cutoffs are; a
\* percentage equal to a minimum percentage reaches that cutoff.
C13_GreatestCutoffReached ==
    Returned =>
        LET cs == Items(gradeCutoffs)
            p == overallPercentage
        IN  (p.k = "num" /\ Met(cs, p) # {}) =>
                /\ \E i \in Greatest(cs, Met(cs, p)) : letterGrade = cs[i].grade
                /\ \A i \in Valid(cs) :
                      cs[i].minPercentage = p
                          => \E j \in Valid(cs) : /\ cs[j].minPercentage = p
                                                  /\ letterGrade = cs[j].grade

\* the percentage equals the minimum of the cutoff in the last place of an
\* array that is not sorted, and that cutoff's grade is returned
C13_Witness ==
    /\ Returned
    /\ overallPercentage = Num(50)
    /\ gradeCutoffs =
          << [grade |-> Str(""), minPercentage |-> Num(0)],
             [grade |-> Str("A"), minPercentage |-> Num(90)],
             [grade |-> Str("B"), minPercentage |-> Num(50)] >>
    /\ letterGrade = Str("B")

\* C14: when a numeric percentage is below every valid cutoff, getLetterGrade
\* returns the grade of a valid cutoff with the greatest minimum percentage
\* <= 0 if there is one and "F" otherwise; without a valid cutoff it returns
\* "F".
C14_FallbackToLowestCutoff ==
    Returned =>
        LET cs == Items(gradeCutoffs)
            p == overallPercentage
            Low == {i \in Valid(cs) : cs[i].minPercentage.n <= 0}
        IN  (p.k = "num" /\ Met(cs, p) = {}) =>
                /\ Low # {} => \E i \in Greatest(cs, Low) : letterGrade = cs[i].grade
                /\ Low = {} => letterGrade = Str("F")
                /\ Valid(cs) = {} => letterGrade = Str("F")

\* C14 with the code's treatment of an empty grade: as C14, but a cutoff
\* whose grade is the empty string gives "F"
C14_FallbackSkippingEmptyGrade ==
    Returned =>
        LET cs == Items(gradeCutoffs)
            p == overallPercentage
            Low == {i \in Valid(cs) : cs[i].minPercentage.n <= 0}
        IN  (p.k = "num" /\ Met(cs, p) = {}) =>
                /\ Low # {} =>
                      \E i \in Greatest(cs, Low) :
                          letterGrade = IF cs[i].grade = Str("") THEN Str("F")
                                        ELSE cs[i].grade
                /\ Low = {} => letterGrade = Str("F")
                /\ Valid(cs) = {} => letterGrade = Str("F")

\* the permutations of 1..n
Permutations(n) ==
    {f \in [1..n -> 1..n] : \A i, j \in 1..n : f[i] = f[j] => i = j}

\* the array cs with its entries in the order f
Permuted(cs, f) == [i \in 1..Len(cs) |-> cs[f[i]]]

DistinctMinPercentages(cs) ==
    \A i, j \in Valid(cs) : cs[i].minPercentage = cs[j].minPercentage => i = j

\* C16: when the valid cutoffs have pairwise distinct minimum percentages,
\* getLetterGrade returns the same grade for every order of the cutoffs
\* array, for every percentage.
C16_OrderOfCutoffsIrrelevant ==
    Returned =>
        LET cs == Items(gradeCutoffs) IN
        DistinctMinPercentages(cs) =>
            \A f \in Permutations(Len(cs)) :
                getLetterGrade(overallPercentage, Permuted(cs, f)) = letterGrade

\* three valid cutoffs with distinct grades and distinct minimum
\* percentages in ascending order, and the percentage reaches the middle one
C16_Witness ==
    /\ Returned
    /\ overallPercentage = Rat(179, 2)
    /\ gradeCutoffs =
          << [grade |-> Str(""), minPercentage |-> Num(0)],
             [grade |-> Str("B"), minPercentage |-> Num(50)],
             [grade |-> Str("A"), minPercentage |-> Num(90)] >>
    /\ letterGrade = Str("B")

\* C17: when several valid cutoffs share the greatest minimum percentage
\* that is <= the percentage, getLetterGrade returns the grade of the first
\* of them in the caller's array.
C17_TieGoesToFirstInArray ==
    Returned =>
        LET cs == Items(gradeCutoffs)
            p == overallPercentage
            T == Greatest(cs, Met(cs, p))
        IN  (p.k = "num" /\ T # {}) =>
                \E i \in T : /\ \A j \in T : i <= j
                             /\ letterGrade = cs[i].grade

\* two cutoffs with different grades tie at 50 behind a cutoff at 90, the
\* percentage reaches only the tied ones, and the first one's grade is
\* returned
C17_Witness ==
    /\ Returned
    /\ overallPercentage = Rat(179, 2)
    /\ gradeCutoffs =
          << [grade |-> Str("A"), minPercentage |-> Num(90)],
             [grade |-> Str("B"), minPercentage |-> Num(50)],
             [grade |-> Str(""), minPercentage |-> Num(50)] >>
    /\ letterGrade = Str("B")

\* C18: cutoffs whose minimum percentage is not a number or whose grade is
\* not a string are ignored: getLetterGrade returns what it returns for the
\* array without them, and the grade returned is "-", "F" or the grade of a
\* valid cutoff.
C18_InvalidCutoffsIgnored ==
    Returned =>
        LET cs == Items(gradeCutoffs) IN
        /\ letterGrade =
              getLetterGrade(overallPercentage, SelectSeq(cs, ValidCutoff))
        /\ \/ letterGrade \in {Str("-"), Str("F")}
           \/ \E i \in Valid(cs) : letterGrade = cs[i].grade

\* a cutoff without a grade and a cutoff without a minimum percentage stand
\* before the valid cutoff whose grade is returned
C18_Witness ==
    /\ Returned
    /\ overallPercentage = Num(120)
    /\ gradeCutoffs =
          << [grade |-> NULL, minPercentage |-> Num(90)],
             [grade |-> Str("A"), minPercentage |-> NULL],
             [grade |-> Str("B"), minPercentage |-> Num(50)] >>
    /\ letterGrade = Str("B")

\* C15: getLetterGrade of a null percentage is "-" whatever the cutoffs are,
\* and the course view shows "-" whenever the overall grade is null.
C15_NoGradeGivesDash ==
    Rendered =>
        /\ getLetterGrade(NULL, gradeCutoffs) = Str("-")
        /\ overallPercentage = NULL => letterGrade = Str("-")

\* a course with an assignment but no grade, and cutoffs that would give a
\* grade to 0, shows "-"
C15_Witness ==
    /\ Rendered
    /\ Len(assignments) > 0
    /\ overallPercentage = NULL
    /\ gradeCutoffs =
          << [grade |-> Str("B"), minPercentage |-> Num(0)],
             [grade |-> Str("A"), minPercentage |-> Num(90)] >>
    /\ letterGrade = Str("-")

DivisorsOfRender ==
    divisorsOfOverallGrade(assignments, groups)
    \cup UNION {divisorsOfEffectiveWeight(assignments[i], assignments, groups) :
                i \in Indices(assignments)}

\* C20: no division of calculateEffectiveWeight or calculateOverallGrade (by
\* totalScore, by the group's total relative weight, by the number of group
\* members, by the total weight) has the divisor 0, and every weight and
\* grade computed is null or a finite number.
C20_NeverDividesByZero ==
    Rendered =>
        /\ \A d \in DivisorsOfRender : ~IsZero(d)
        /\ overallPercentage.k \in {"null", "num"}
        /\ \A i \in Indices(assignments) :
              rows[i].effectiveWeight.k \in {"null", "num"}

\* a graded assignment with totalScore 0 stands beside a graded member of a
\* group: the group's weight and the total weight are divided, the score of
\* the first is not
C20_Witness ==
    /\ Rendered
    /\ overallPercentage.k = "num"
    /\ \E i, j \in Indices(assignments) :
          /\ ~assignments[i].isDropped
          /\ assignments[i].score = Num(50)
          /\ assignments[i].totalScore = Num(0)
          /\ assignments[i].weight = Num(1)
          /\ assignments[i].groupId = NoGroup
          /\ j \in Contributing(assignments, groups)
          /\ assignments[j].groupId # NoGroup
    /\ Cardinality(DivisorsOfRender) >= 2

\* x with NaN replaced by null
NullIfNaN(x) == IF x.k = "nan" THEN NULL ELSE x

\* the assignment with its NaN fields set to null
WithoutNaN(a) ==
    [a EXCEPT !.score = NullIfNaN(@), !.totalScore = NullIfNaN(@),
              !.weight = NullIfNaN(@), !.relativeWeightInGroup = NullIfNaN(@)]

\* C21: with NaN in the score, totalScore, weight or relativeWeightInGroup of
\* assignments, calculateEffectiveWeight and calculateOverallGrade return what
\* they return with those fields set to null, and never NaN.
C21_NaNTreatedAsAbsent ==
    Rendered =>
        LET clean == [i \in Indices(assignments) |-> WithoutNaN(assignments[i])] IN
        /\ overallPercentage = calculateOverallGrade(clean, groups)
        /\ overallPercentage.k # "nan"
        /\ \A i \in Indices(assignments) :
              /\ rows[i].effectiveWeight =
                     calculateEffectiveWeight(clean[i], clean, groups)
              /\ rows[i].effectiveWeight.k # "nan"

\* the effective weights and the overall grade of the course as are those
\* rendered
SameResults(as) ==
    /\ calculateOverallGrade(as, groups) = overallPercentage
    /\ \A j \in Indices(as) :
          calculateEffectiveWeight(as[j], as, groups) = rows[j].effectiveWeight

\* C22: the weight of an assignment that has a group, and the relative
\* weight of an assignment that has none, are never used: with any other
\* value in that field every effective weight and the overall grade stay as
\* they are.
C22_UnusedWeightFieldIsIrrelevant ==
    Rendered =>
        \A i \in Indices(assignments) :
            IF assignments[i].groupId # NoGroup
            THEN \A w \in AnyWeightValues :
                    SameResults([assignments EXCEPT ![i].weight = w])
            ELSE \A r \in AnyWeightValues :
                    SameResults([assignments EXCEPT ![i].relativeWeightInGroup = r])

\* a graded member with direct weight 2 and no relative weight is the only
\* one of a group of weight 1, beside a graded assignment without a group
\* that has a relative weight
C22_Witness ==
    /\ Rendered
    /\ Len(groups) = 1
    /\ groups[1].weight = Num(1)
    /\ overallPercentage.k = "num"
    /\ \E i, j \in Indices(assignments) :
          /\ assignments[i].groupId = groups[1].id
          /\ ~assignments[i].isDropped
          /\ assignments[i].weight = Num(2)
          /\ assignments[i].relativeWeightInGroup = NULL
          /\ rows[i].effectiveWeight = Num(1)
          /\ assignments[j].groupId = NoGroup
          /\ assignments[j].relativeWeightInGroup = Num(2)
          /\ assignments[j].weight = Num(2)
          /\ ~assignments[j].isDropped

\* no assignment that counts is extra credit, and every graded assignment
\* has 0 <= score <= totalScore and totalScore > 0
OrdinaryScores(as) ==
    \A i \in Indices(as) :
        /\ ~as[i].isDropped => ~as[i].isExtraCredit
        /\ as[i].score.k = "num" =>
              /\ as[i].totalScore.k = "num"
              /\ as[i].totalScore.n > 0
              /\ as[i].score.n >= 0
              /\ AtMost(as[i].score, as[i].totalScore)

\* C24: without extra credit and with 0 <= score <= totalScore, totalScore
\* > 0 on every graded assignment, an overall grade that is a number lies in
\* [0, 100], between 100 times the smallest and 100 times the greatest
\* percentage of the assignments that contribute.
C24_GradeWithinPercentages ==
    (Rendered /\ OrdinaryScores(assignments) /\ overallPercentage.k # "null") =>
        /\ overallPercentage.k = "num"
        /\ AtMost(Num(0), overallPercentage)
        /\ AtMost(overallPercentage, Num(100))
        /\ \E i \in Contributing(assignments, groups) :
              AtMost(Times(Num(100), Percentage(assignments[i])), overallPercentage)
        /\ \E i \in Contributing(assignments, groups) :
              AtMost(overallPercentage, Times(Num(100), Percentage(assignments[i])))

\* two assignments of different weights and percentages contribute and the
\* grade lies strictly between their percentages
C24_Witness ==
    /\ Rendered
    /\ OrdinaryScores(assignments)
    /\ Cardinality(Contributing(assignments, groups)) = 2
    /\ overallPercentage.k = "num"
    /\ \E i, j \in Contributing(assignments, groups) :
          /\ EffectiveWeightOf(assignments, groups, i)
               # EffectiveWeightOf(assignments, groups, j)
          /\ Greater(overallPercentage, Times(Num(100), Percentage(assignments[i])))
          /\ Greater(Times(Num(100), Percentage(assignments[j])), overallPercentage)

\* the members of M with a percentage that are not extra credit
GradedIn(as, M) == {i \in M : Computable(as[i]) /\ ~as[i].isExtraCredit}

\* an assignment as handleAddAssignment creates it, put into group gid
UngradedMember(gid) ==
    [score |-> NULL, totalScore |-> Num(100), weight |-> Num(0),
     isDropped |-> FALSE, isExtraCredit |-> FALSE, groupId |-> gid,
     relativeWeightInGroup |-> NULL]

\* C25: in an equal-split group of positive weight G with k non-dropped
\* members, g of them graded and not extra credit, the members add G * g / k
\* to the denominator of the grade, and one more ungraded member lowers the
\* effective weight of every member from G / k to G / (k + 1).
C25_UngradedMemberKeepsItsShare ==
    Rendered =>
        \A g \in Indices(groups) :
            LET G == groups[g].weight
                M == Members(assignments, groups[g].id)
                k == Cardinality(M)
                after == Append(assignments, UngradedMember(groups[g].id))
            IN
            (/\ PositiveGroup(groups[g])
             /\ M # {}
             /\ \A i \in M : ~PositiveRelative(assignments[i]))
                => /\ SumOver([i \in M |->
                                ContributionOf(assignments, groups, i).pointsTotal], M)
                        = Rat(G.n * Cardinality(GradedIn(assignments, M)), G.d * k)
                   /\ Denominator(assignments, groups,
                                  Contributing(assignments, groups) \cap M)
                        = Rat(G.n * Cardinality(GradedIn(assignments, M)), G.d * k)
                   /\ \A i \in M :
                        /\ rows[i].effectiveWeight = Rat(G.n, G.d * k)
                        /\ calculateEffectiveWeight(after[i], after, groups)
                             = Rat(G.n, G.d * (k + 1))
                   /\ SumOver([i \in M |->
                                ContributionOf(after, groups, i).pointsTotal], M)
                        = Rat(G.n * Cardinality(GradedIn(assignments, M)),
                              G.d * (k + 1))

\* an equal-split group has a graded and an ungraded member, so that it adds
\* half of its weight to the denominator
C25_Witness ==
    /\ Rendered
    /\ Len(groups) = 1
    /\ groups[1].weight = Num(2)
    /\ Members(assignments, groups[1].id) = {1, 2}
    /\ \A i \in {1, 2} : ~PositiveRelative(assignments[i])
    /\ assignments[1].score = Num(50)
    /\ assignments[1].totalScore = Num(100)
    /\ ~assignments[1].isExtraCredit
    /\ assignments[2].score = NULL
    /\ rows[1].effectiveWeight = Num(1)
    /\ rows[2].effectiveWeight = Num(1)
    /\ overallPercentage = Num(50)

RaisedScores == {Num(0), Num(50), Num(100)}

\* the assignments with score of assignment i replaced by s
WithScore(as, i, s) == [as EXCEPT ![i].score = s]

\* C27: raising the score of one non-dropped assignment whose totalScore is
\* > 0, all else unchanged, never lowers the overall grade and never changes
\* whether it is null.
C27_GradeMonotoneInScore ==
    Rendered =>
        \A i \in Indices(assignments) :
            (/\ ~assignments[i].isDropped
             /\ assignments[i].score.k = "num"
             /\ assignments[i].totalScore.k = "num"
             /\ assignments[i].totalScore.n > 0)
                => \A s \in RaisedScores :
                      Greater(s, assignments[i].score) =>
                          LET after == calculateOverallGrade(
                                           WithScore(assignments, i, s), groups)
                          IN  /\ (after.k = "null") = (overallPercentage.k = "null")
                              /\ overallPercentage.k = "num"
                                    => /\ after.k = "num"
                                       /\ AtMost(overallPercentage, after)

\* two assignments contribute, and raising the score of one of them from 0
\* to 50 raises a grade that was not 0
C27_Witness ==
    /\ Rendered
    /\ Cardinality(Contributing(assignments, groups)) = 2
    /\ overallPercentage.k = "num"
    /\ overallPercentage.n > 0
    /\ \E i \in Contributing(assignments, groups) :
          /\ assignments[i].score = Num(0)
          /\ assignments[i].groupId # NoGroup
          /\ Greater(calculateOverallGrade(WithScore(assignments, i, Num(50)), groups),
                     overallPercentage)

\* the positive constants weights are multiplied by
Scales == {Rat(1, 2), Num(3)}

Scaled(x, c) == IF x.k = "num" THEN Times(x, c) ELSE x

\* the weight of every assignment without a group multiplied by c
WithScaledWeights(as, c) ==
    [i \in Indices(as) |->
        IF as[i].groupId = NoGroup
        THEN [as[i] EXCEPT !.weight = Scaled(@, c)]
        ELSE as[i]]

\* the weight of every group multiplied by c
WithScaledGroups(gs, c) ==
    [g \in Indices(gs) |-> [gs[g] EXCEPT !.weight = Scaled(@, c)]]

\* the relative weight of every member of group gid multiplied by c
WithScaledRelativeWeights(as, gid, c) ==
    [i \in Indices(as) |->
        IF as[i].groupId = gid
        THEN [as[i] EXCEPT !.relativeWeightInGroup = Scaled(@, c)]
        ELSE as[i]]

ReturnedCutoff(cutoffs, p) == firstMetCutoff(sortedCutoffs(cutoffs), p, 1)

\* C29: for one cutoffs array and numbers p1 <= p2 that each meet a valid
\* cutoff, getLetterGrade returns for each the grade of a cutoff, and the
\* minimum percentage of the cutoff returned for p1 is at most that of the
\* cutoff returned for p2.
C29_LetterGradeMonotone ==
    Returned =>
        LET cs == Items(gradeCutoffs)
            sorted == sortedCutoffs(gradeCutoffs)
            p1 == overallPercentage
        IN  \A p2 \in PercentageValues :
                (/\ p1.k = "num"
                 /\ p2.k = "num"
                 /\ AtMost(p1, p2)
                 /\ Met(cs, p1) # {}
                 /\ Met(cs, p2) # {})
                    => LET i1 == ReturnedCutoff(gradeCutoffs, p1)
                           i2 == ReturnedCutoff(gradeCutoffs, p2)
                       IN  /\ i1 # 0
                           /\ i2 # 0
                           /\ letterGrade = sorted[i1].grade
                           /\ getLetterGrade(p2, gradeCutoffs) = sorted[i2].grade
                           /\ AtMost(sorted[i1].minPercentage,
                                     sorted[i2].minPercentage)

\* in an unsorted array 50 returns the cutoff at 50 and the higher
\* percentages 89.5 and 90 return the cutoffs at 50 and at 90
C29_Witness ==
    /\ Returned
    /\ overallPercentage = Num(50)
    /\ gradeCutoffs =
          << [grade |-> Str("B"), minPercentage |-> Num(50)],
             [grade |-> Str(""), minPercentage |-> Num(0)],
             [grade |-> Str("A"), minPercentage |-> Num(90)] >>
    /\ letterGrade = Str("B")
    /\ getLetterGrade(Rat(179, 2), gradeCutoffs) = Str("B")
    /\ getLetterGrade(Num(90), gradeCutoffs) = Str("A")

----------------------------------------------------------------------------
(* Editing the course: AssignmentTable, AssignmentRow, GroupManager.       *)
(* A handler writes to the store; the subscriptions hand the new documents *)
(* to CourseView, AssignmentTable copies them into orderedAssignments, and *)
(* the page has re-rendered before the next handler runs.                  *)

\* the document handleAddAssignment adds
newAssignment ==
    [score |-> NULL, totalScore |-> Num(100), weight |-> Num(0),
     isDropped |-> FALSE, isExtraCredit |-> FALSE, groupId |-> NoGroup,
     relativeWeightInGroup |-> NULL]

EditedGroupIds == 1..MaxEditedGroups

\* what the user types into the number inputs ("" arrives as null)
EditedScores == {NULL, Num(0), Num(100)}

EditedWeights == {Num(0), Num(1)}

EditedRelativeWeights == {NULL, Num(2)}

\* the weights GroupManager accepts for a group: numbers >= 0
EditedGroupWeights == {Num(0), Num(2)}

\* throttledSave: value === null || value === "" ? null : Number(value),
\* and null for NaN
valueToSave(value) == IF value.k \in {"null", "nan"} THEN NULL ELSE value

\* as memoDependencies, but the groups are not a dependency
memoDependenciesWithoutGroups(orderedAssignments, gs) == <<orderedAssignments>>

\* the dependency array of the assignmentsWithCalculatedData memo
memoDependencies(orderedAssignments, gs) == <<orderedAssignments, gs>>

\* the subscriptions deliver the documents as and gs and the page
\* re-renders: CourseView recomputes its memos, AssignmentTable recomputes
\* its rows when a dependency of the memo changed
Refresh(savedAssignments, savedGroups) ==
    \E as \in {savedAssignments}, gs \in {savedGroups},
       percentage \in {calculateOverallGrade(savedAssignments, savedGroups)} :
    /\ pc = "rendered"
    /\ pc' = "rendered"
    /\ assignments' = as
    /\ groups' = gs
    /\ overallPercentage' = percentage
    /\ letterGrade' =
          CourseViewLetterGrade(percentage, safeCutoffs(gradeCutoffs))
    /\ gradeCutoffs' =
          IF percentage.k = "null" \/ ~isArray(gradeCutoffs)
          THEN gradeCutoffs
          ELSE cutoffsAfterGetLetterGrade(gradeCutoffs)
    /\ rows' =
          IF memoDependencies(as, gs) # memoDependencies(assignments, groups)
          THEN [i \in 1..Len(as) |->
                   assignmentsWithCalculatedData(as[i], as, gs)]
          ELSE rows

\* AssignmentTable: a new assignment is added below the others
handleAddAssignment ==
    /\ Len(assignments) < MaxAssignments
    /\ Refresh(Append(assignments, newAssignment), groups)

\* AssignmentRow: the assignment is deleted
handleDelete ==
    \E i \in Indices(assignments) :
        Refresh(RemoveAt(assignments, i), groups)

\* AssignmentRow: the drop checkbox is toggled
toggleDrop ==
    \E i \in Indices(assignments) :
        Refresh([assignments EXCEPT ![i].isDropped = ~@], groups)

\* AssignmentRow: another option of the group select is chosen, and only
\* the groupId is saved
handleInputChange ==
    \E i \in Indices(assignments) :
        \E g \in {NoGroup} \cup {groups[j].id : j \in Indices(groups)} :
            /\ g # assignments[i].groupId
            /\ Refresh([assignments EXCEPT ![i].groupId = g], groups)

\* AssignmentRow: a number input loses the focus and throttledSave saves
\* its value if it differs from the assignment's; the weight input exists
\* only without a group, the relative weight input is disabled without one
handleBlur ==
    \E i \in Indices(assignments) :
        \/ \E v \in EditedScores :
              /\ v # assignments[i].score
              /\ Refresh([assignments EXCEPT ![i].score = valueToSave(v)], groups)
        \/ /\ assignments[i].groupId = NoGroup
           /\ \E v \in EditedWeights :
                 /\ v # assignments[i].weight
                 /\ Refresh([assignments EXCEPT ![i].weight = valueToSave(v)],
                            groups)
        \/ /\ assignments[i].groupId # NoGroup
           /\ \E v \in EditedRelativeWeights :
                 /\ v # assignments[i].relativeWeightInGroup
                 /\ Refresh([assignments EXCEPT
                                ![i].relativeWeightInGroup = valueToSave(v)],
                            groups)

\* the id of a new document: one that no group has
newGroupId(gs) ==
    CHOOSE id \in EditedGroupIds :
        /\ \A g \in Indices(gs) : gs[g].id # id
        /\ \A other \in EditedGroupIds :
              (\A g \in Indices(gs) : gs[g].id # other) => id <= other

\* GroupManager: a group with a new id and a weight >= 0 is added
handleAddGroup ==
    /\ Len(groups) < MaxEditedGroups
    /\ \E w \in EditedGroupWeights :
          Refresh(assignments,
                  Append(groups, [id |-> newGroupId(groups), weight |-> w]))

\* GroupManager: the edited weight of a group is saved
handleSaveEdit ==
    \E g \in Indices(groups) :
        \E w \in EditedGroupWeights :
            Refresh(assignments, [groups EXCEPT ![g].weight = w])

\* as assignmentsInGroup, but dropped assignments are not counted
assignmentsInGroupNotDropped(as, gid) ==
    SelectSeq(as, LAMBDA a : a.groupId = gid /\ ~a.isDropped)

\* assignments.filter((a) => a.groupId === groupId)
assignmentsInGroup(as, gid) == SelectSeq(as, LAMBDA a : a.groupId = gid)

\* GroupManager: a group is deleted unless assignments are assigned to it
handleDeleteGroup ==
    /\ pc = "rendered"
    /\ \E g \in Indices(groups) :
          IF Len(assignmentsInGroup(assignments, groups[g].id)) > 0
          THEN UNCHANGED vars
          ELSE Refresh(assignments, RemoveAt(groups, g))

NextEdits ==
    \/ Render
    \/ handleAddAssignment
    \/ handleDelete
    \/ toggleDrop
    \/ handleInputChange
    \/ handleBlur
    \/ handleAddGroup
    \/ handleSaveEdit
    \/ handleDeleteGroup

\* a new course without assignments and groups
InitEdits == Loaded({}, {}, {SavedCutoffs})

SpecEdits == InitEdits /\ [][NextEdits]_vars

IdsOf(gs) == {gs[g].id : g \in Indices(gs)}

\* C30: a group disappears only in a step in which no assignment, dropped
\* or not, has its id as groupId; and after any sequence of edits every
\* groupId that is not null names an existing group.
C30_NoDanglingGroupId ==
    /\ [][\A id \in IdsOf(groups) \ IdsOf(groups') :
              \A i \in Indices(assignments) : assignments[i].groupId # id]_vars
    /\ [](\A i \in Indices(assignments) :
              assignments[i].groupId # NoGroup
                  => assignments[i].groupId \in IdsOf(groups))

\* a group was deleted while the other group keeps a dropped member
C30_Witness ==
    /\ Rendered
    /\ Len(groups) = 1
    /\ groups[1].id = 2
    /\ Len(assignments) = 2
    /\ assignments[1].groupId = 2
    /\ assignments[1].isDropped
    /\ assignments[2].groupId = NoGroup

====
